---------------------------- MODULE Spec2Model ----------------------------
(***************************************************************************)
(* The task API of the TODO application (express + better-sqlite3, one     *)
(* in-memory table `tasks`) as a state machine.  A request is sent, the    *)
(* handler runs to completion (better-sqlite3 is synchronous, so a handler *)
(* is one step of the event loop), and the response is received.  The      *)
(* requests of several clients may be under way at once; one client is    *)
(* the TaskList component of the React frontend.                          *)
(***************************************************************************)
EXTENDS Integers, Sequences, FiniteSets, TLC

VARIABLES
    tasks,   \* the rows of table tasks: a function from id to row
    seq,     \* sqlite_sequence of tasks: the largest id ever assigned
    now,     \* CURRENT_TIMESTAMP, in seconds
    pc,      \* "idle", "sent" (a request is in flight) or "replied"
    req,     \* the request in flight or just handled
    res,     \* the response to req
    hist,    \* when recording is on: the requests answered, latest last
    view,    \* the state of the TaskList component: tasks, sortBy, sortOrder
    calls    \* the requests under way at once, each in a slot

vars == <<tasks, seq, now, pc, req, res, hist, view, calls>>

(***************************************************************************)
(* Bounds of the model.                                                    *)
(***************************************************************************)
MaxClock == 1    \* the clock ticks at most this many times
MaxNew == 1      \* tasks created on top of the sample tasks
MaxSort == 2     \* reorder sends the integers 0..MaxSort
MaxBatch == 2    \* length of a reorder batch
MaxFlights == 2  \* requests under way at once

(***************************************************************************)
(* JavaScript / JSON values and SQLite values.  A string is a sequence of  *)
(* one-character strings.                                                  *)
(***************************************************************************)
Undefined == [k |-> "undefined"]
Null == [k |-> "null"]
Num(n) == [k |-> "number", v |-> n]
Str(s) == [k |-> "string", v |-> s]
Bool(b) == [k |-> "boolean", v |-> b]

Digits == <<"0", "1", "2", "3", "4", "5", "6", "7", "8", "9">>
IsDigit(c) == \E i \in 1..Len(Digits) : Digits[i] = c
DigitVal(c) == (CHOOSE i \in 1..Len(Digits) : Digits[i] = c) - 1

\* Code points of the characters the model uses (memcmp order of BINARY).
Code(c) ==
    CASE c = " " -> 32
      [] c = "-" -> 45
      [] IsDigit(c) -> 48 + DigitVal(c)
      [] c = "C" -> 67
      [] c = "R" -> 82
      [] c = "T" -> 84
      [] c = "a" -> 97
      [] c = "d" -> 100
      [] c = "x" -> 120

IsWhite(c) == c = " "

\* String.prototype.trim
RECURSIVE TrimLeft(_)
TrimLeft(s) ==
    IF s # <<>> /\ IsWhite(Head(s)) THEN TrimLeft(Tail(s)) ELSE s

RECURSIVE TrimRight(_)
TrimRight(s) ==
    IF s # <<>> /\ IsWhite(s[Len(s)]) THEN TrimRight(SubSeq(s, 1, Len(s) - 1)) ELSE s

Trim(s) == TrimRight(TrimLeft(s))

\* JavaScript truthiness (the operand of !, && and ?:)
Truthy(x) ==
    CASE x.k = "undefined" -> FALSE
      [] x.k = "null" -> FALSE
      [] x.k = "number" -> x.v # 0
      [] x.k = "string" -> x.v # <<>>
      [] x.k = "boolean" -> x.v

\* the value of a sequence of digits
RECURSIVE DigitsValue(_)
DigitsValue(s) ==
    IF s = <<>> THEN 0
    ELSE 10 * DigitsValue(SubSeq(s, 1, Len(s) - 1)) + DigitVal(s[Len(s)])

AllDigits(s) == s # <<>> /\ \A i \in 1..Len(s) : IsDigit(s[i])

\* better-sqlite3 binds numbers, strings and null; anything else throws a
\* TypeError out of Statement.run
Bindable(x) == x.k \in {"null", "number", "string"}

\* A value stored in or compared with a column of INTEGER affinity: text
\* that is a well-formed integer literal becomes that integer
IntegerAffinity(x) ==
    IF x.k = "string" /\ AllDigits(x.v) THEN Num(DigitsValue(x.v)) ELSE x

\* an engine that puts NULL behind every value
ClassRank_NullsLast(x) ==
    CASE x.k = "null" -> 3
      [] x.k = "number" -> 1
      [] x.k = "string" -> 2

\* SQLite's order of values: NULL, then numbers, then text by memcmp
ClassRank(x) ==
    CASE x.k = "null" -> 0
      [] x.k = "number" -> 1
      [] x.k = "string" -> 2

RECURSIVE TextLess(_, _)
TextLess(s, t) ==
    IF t = <<>> THEN FALSE
    ELSE IF s = <<>> THEN TRUE
    ELSE IF Code(Head(s)) # Code(Head(t)) THEN Code(Head(s)) < Code(Head(t))
    ELSE TextLess(Tail(s), Tail(t))

SqlLess(x, y) ==
    IF ClassRank(x) # ClassRank(y) THEN ClassRank(x) < ClassRank(y)
    ELSE CASE x.k = "null" -> FALSE
           [] x.k = "number" -> x.v < y.v
           [] x.k = "string" -> TextLess(x.v, y.v)


(***************************************************************************)
(* The table and its sample rows.  The sample titles and descriptions are  *)
(* shortened to one letter; the dates are the source's.                    *)
(***************************************************************************)
Row(id, title, description, due_date, completed, sort_order, at) ==
    [id |-> id, title |-> title, description |-> description,
     due_date |-> due_date, completed |-> completed, sort_order |-> sort_order,
     created_at |-> Num(at), updated_at |-> Num(at)]

Date1230 == Str(<<"2", "0", "2", "5", "-", "1", "2", "-", "3", "0">>)
Date1223 == Str(<<"2", "0", "2", "5", "-", "1", "2", "-", "2", "3">>)
Date1222 == Str(<<"2", "0", "2", "5", "-", "1", "2", "-", "2", "2">>)

sampleTasks ==
    <<[title |-> Str(<<"C">>), description |-> Str(<<"d">>), due_date |-> Date1230, completed |-> Num(0)],
      [title |-> Str(<<"R">>), description |-> Str(<<"d">>), due_date |-> Date1223, completed |-> Num(0)],
      [title |-> Str(<<"T">>), description |-> Str(<<"d">>), due_date |-> Date1222, completed |-> Num(1)]>>

NumSamples == Len(sampleTasks)

\* sampleTasks.forEach((task, index) => taskInsertStmt.run(..., index))
SeededTasks ==
    [i \in 1..NumSamples |->
        Row(i, sampleTasks[i].title, sampleTasks[i].description,
            sampleTasks[i].due_date, sampleTasks[i].completed, Num(i - 1), 0)]

MaxId == NumSamples + MaxNew

NoReq == [op |-> "none"]
NoRes == [status |-> 0]

\* an answered request, with the table it was served on
Entry(r, status, before) == [req |-> r, status |-> status, before |-> before]
NoEntry == Entry(NoReq, 0, <<>>)

\* a request under way: who sent it, the tasks its handler closed over (for
\* the TaskList), the table when it was sent, how far it has got ("waiting",
\* "serving", "answered"), the table it was served on and the response
Call(r, by, closure, before) ==
    [req |-> r, by |-> by, closure |-> closure, before |-> before,
     state |-> "waiting", on |-> <<>>, res |-> NoRes]
NoCall == [state |-> "none"]
Slots == 1..MaxFlights

\* useState([]), useState('created_at'), useState('DESC')
Unmounted ==
    [tasks |-> <<>>,
     sortBy |-> <<"c", "r", "e", "a", "t", "e", "d", "_", "a", "t">>,
     sortOrder |-> <<"D", "E", "S", "C">>]

Init ==
    /\ tasks = SeededTasks
    /\ seq = NumSamples
    /\ now = 0
    /\ pc = "idle"
    /\ req = NoReq
    /\ res = NoRes
    /\ hist = [on |-> FALSE, prev |-> NoEntry, last |-> NoEntry]
    /\ view = Unmounted
    /\ calls = [i \in Slots |-> NoCall]

Ids(t) == DOMAIN t

\* SELECT * FROM tasks WHERE id = ?  (the parameter takes the column's
\* INTEGER affinity before the comparison)
RowsWithId(t, x) ==
    {i \in Ids(t) : IntegerAffinity(x) = Num(i)}

\* a delete that closes the gap: the rows left are renumbered 0, 1, ...
Remove_Renumber(t, S) ==
    [i \in Ids(t) \ S |->
        [t[i] EXCEPT !.sort_order = Num(Cardinality({j \in Ids(t) \ S : j < i}))]]

Remove(t, S) == [i \in Ids(t) \ S |-> t[i]]

Error(status, message) == [status |-> status, error |-> message]
Ok(status, body) == [status |-> status, body |-> body]

\* the handler has answered
Reply(r) ==
    /\ pc' = "replied"
    /\ res' = r
    /\ hist' = IF hist.on
               THEN [hist EXCEPT !.prev = hist.last,
                                 !.last = Entry(req, r.status, tasks)]
               ELSE hist
    /\ UNCHANGED <<req, now, view, calls>>

Handling(op) == pc = "sent" /\ req.op = op

(***************************************************************************)
(* PUT /api/tasks/reorder                                                  *)
(***************************************************************************)
IsArray(x) == x.k = "array"

\* the statement run with its two parameters in the other order
RunReorderUpdate_Swapped(t, so, id, at) ==
    [i \in Ids(t) |->
        IF i \in RowsWithId(t, so)
        THEN [t[i] EXCEPT !.sort_order = IntegerAffinity(id), !.updated_at = Num(at)]
        ELSE t[i]]

\* the UPDATE without its WHERE clause: every row is written
RunReorderUpdate_NoWhere(t, so, id, at) ==
    [i \in Ids(t) |->
        [t[i] EXCEPT !.sort_order = IntegerAffinity(so), !.updated_at = Num(at)]]

\* updateStmt.run(sort_order, id)
RunReorderUpdate(t, so, id, at) ==
    [i \in Ids(t) |->
        IF i \in RowsWithId(t, id)
        THEN [t[i] EXCEPT !.sort_order = IntegerAffinity(so),
                          !.updated_at = Num(at)]
        ELSE t[i]]

\* tasks.forEach(...) from element i on: the table it leaves, and whether a
\* statement threw
RECURSIVE ForEachAssignment(_, _, _, _)
ForEachAssignment(t, batch, i, at) ==
    IF i > Len(batch) THEN [tasks |-> t, threw |-> FALSE]
    ELSE LET a == batch[i] IN
         IF Truthy(a.id) /\ a.sort_order # Undefined
         THEN IF Bindable(a.sort_order) /\ Bindable(a.id)
              THEN ForEachAssignment(RunReorderUpdate(t, a.sort_order, a.id, at),
                                     batch, i + 1, at)
              ELSE [tasks |-> t, threw |-> TRUE]
         ELSE ForEachAssignment(t, batch, i + 1, at)

\* the handler without the test of tasks.length
ReorderTasks_NoLengthCheck ==
    /\ Handling("reorder")
    /\ IF ~IsArray(req.tasks)
       THEN /\ Reply(Error(400, "Tasks array is required"))
            /\ UNCHANGED <<tasks, seq>>
       ELSE LET out == ForEachAssignment(tasks, req.tasks.v, 1, now) IN
            /\ tasks' = out.tasks
            /\ Reply(IF out.threw
                     THEN Error(500, "Failed to reorder tasks")
                     ELSE Ok(200, "Tasks reordered successfully"))
            /\ UNCHANGED seq

ReorderTasks ==
    /\ Handling("reorder")
    /\ IF ~IsArray(req.tasks) \/ Len(req.tasks.v) = 0
       THEN /\ Reply(Error(400, "Tasks array is required"))
            /\ UNCHANGED <<tasks, seq>>
       ELSE LET out == ForEachAssignment(tasks, req.tasks.v, 1, now) IN
            /\ tasks' = out.tasks
            /\ Reply(IF out.threw
                     THEN Error(500, "Failed to reorder tasks")
                     ELSE Ok(200, "Tasks reordered successfully"))
            /\ UNCHANGED seq

(***************************************************************************)
(* GET /api/tasks                                                          *)
(***************************************************************************)
Lower == <<"a", "c", "d", "e", "s">>
Upper == <<"A", "C", "D", "E", "S">>

UpperChar(c) ==
    IF \E i \in 1..Len(Lower) : Lower[i] = c
    THEN Upper[CHOOSE i \in 1..Len(Lower) : Lower[i] = c]
    ELSE c

\* String.prototype.toUpperCase
ToUpperCase(s) == [i \in 1..Len(s) |-> UpperChar(s[i])]

ASC == <<"A", "S", "C">>
DESC == <<"D", "E", "S", "C">>
created_at == <<"c", "r", "e", "a", "t", "e", "d", "_", "a", "t">>
due_date == <<"d", "u", "e", "_", "d", "a", "t", "e">>
completed == <<"c", "o", "m", "p", "l", "e", "t", "e", "d">>
sort_order == <<"s", "o", "r", "t", "_", "o", "r", "d", "e", "r">>
title == <<"t", "i", "t", "l", "e">>

validSortFields == {created_at, due_date, completed, sort_order, title}
validOrders == {ASC, DESC}

\* the column an ORDER BY term names
Column(f) ==
    CASE f = created_at -> "created_at"
      [] f = due_date -> "due_date"
      [] f = completed -> "completed"
      [] f = sort_order -> "sort_order"
      [] f = title -> "title"

\* whether row r comes before row e under ORDER BY <field> <order>
Before(r, e, field, order) ==
    IF order = ASC
    THEN SqlLess(r[Column(field)], e[Column(field)])
    ELSE SqlLess(e[Column(field)], r[Column(field)])

\* a sorter that puts row r in front of the rows equal to it
SorterInsert_BeforeEquals(rows, r, field, order) ==
    LET later == {j \in 1..Len(rows) : ~Before(rows[j], r, field, order)}
        at == IF later = {} THEN Len(rows) + 1
              ELSE CHOOSE j \in later : \A k \in later : j <= k
    IN SubSeq(rows, 1, at - 1) \o <<r>> \o SubSeq(rows, at, Len(rows))

\* the sorter takes row r: it goes behind every row that does not come after it
SorterInsert(rows, r, field, order) ==
    LET later == {j \in 1..Len(rows) : Before(r, rows[j], field, order)}
        at == IF later = {} THEN Len(rows) + 1
              ELSE CHOOSE j \in later : \A k \in later : j <= k
    IN SubSeq(rows, 1, at - 1) \o <<r>> \o SubSeq(rows, at, Len(rows))

\* the rows with the n smallest ids, sorted
RECURSIVE SortScan(_, _, _, _)
SortScan(t, n, field, order) ==
    IF n = 0 THEN <<>>
    ELSE LET id == CHOOSE i \in Ids(t) : Cardinality({j \in Ids(t) : j < i}) = n - 1
         IN SorterInsert(SortScan(t, n - 1, field, order), t[id], field, order)

\* the query with LIMIT 2
OrderBy_Limit(t, field, order) ==
    LET rows == SortScan(t, Cardinality(Ids(t)), field, order)
    IN SubSeq(rows, 1, IF Len(rows) < 2 THEN Len(rows) ELSE 2)

\* SELECT * FROM tasks ORDER BY <field> <order>: the table is scanned in
\* rowid order into SQLite's sorter, which compares the one ORDER BY term
\* and keeps rows that are equal on it in the order they were scanned
OrderBy(t, field, order) == SortScan(t, Cardinality(Ids(t)), field, order)

\* a fallback to the title column
SortField_FallbackTitle(sortBy) ==
    IF sortBy.k = "string" /\ sortBy.v \in validSortFields THEN sortBy.v ELSE title

\* validSortFields.includes(sortBy) ? sortBy : 'created_at'
SortField(sortBy) ==
    IF sortBy.k = "string" /\ sortBy.v \in validSortFields THEN sortBy.v ELSE created_at

ListTasks ==
    /\ Handling("list")
    /\ LET sortBy == IF req.sortBy = Undefined THEN Str(created_at) ELSE req.sortBy
           order == IF req.order = Undefined THEN Str(DESC) ELSE req.order
       IN IF order.k # "string"
          THEN Reply(Error(500, "Failed to fetch tasks"))
          ELSE LET sortField == SortField(sortBy)
                   sortOrder == IF ToUpperCase(order.v) \in validOrders
                                THEN ToUpperCase(order.v) ELSE DESC
               IN Reply(Ok(200, OrderBy(tasks, sortField, sortOrder)))
    /\ UNCHANGED <<tasks, seq>>

(***************************************************************************)
(* The :id routes                                                          *)
(***************************************************************************)
NaN == [k |-> "NaN"]

RECURSIVE DigitPrefix(_)
DigitPrefix(s) ==
    IF s # <<>> /\ IsDigit(Head(s)) THEN <<Head(s)>> \o DigitPrefix(Tail(s)) ELSE <<>>

\* parseInt(string): leading white space is skipped, then the longest run of
\* digits is read (an optional sign before it)
ParseInt(s) ==
    LET t == TrimLeft(s)
        neg == t # <<>> /\ Head(t) = "-"
        d == DigitPrefix(IF neg THEN Tail(t) ELSE t)
    IN IF d = <<>> THEN NaN
       ELSE Num(IF neg THEN 0 - DigitsValue(d) ELSE DigitsValue(d))

\* the test with isNaN inverted
BadId_Inverted(id) == id = <<>> \/ ParseInt(id) # NaN

\* !id || isNaN(parseInt(id))
BadId(id) == id = <<>> \/ ParseInt(id) = NaN

\* .get(id): the row with that id, if any
GetRow(t, id) == RowsWithId(t, Str(id))

GetTask ==
    /\ Handling("get")
    /\ IF BadId(req.id)
       THEN Reply(Error(400, "Valid task ID is required"))
       ELSE IF GetRow(tasks, req.id) = {}
       THEN Reply(Error(404, "Task not found"))
       ELSE Reply(Ok(200, tasks[CHOOSE i \in GetRow(tasks, req.id) : TRUE]))
    /\ UNCHANGED <<tasks, seq>>

(***************************************************************************)
(* POST /api/tasks                                                         *)
(***************************************************************************)
\* a destructuring that leaves an absent field null
Default_Null(x, d) == IF x = Undefined THEN Null ELSE x

\* const { title, description = '', due_date = null, completed = 0 } = req.body
Default(x, d) == IF x = Undefined THEN d ELSE x

\* the test without title.trim() === ''
BlankTitle_NoTrim(x) == ~Truthy(x) \/ x.k # "string"

\* !title || typeof title !== 'string' || title.trim() === ''
BlankTitle(x) == ~Truthy(x) \/ x.k # "string" \/ Trim(x.v) = <<>>

\* SELECT MAX(sort_order): the greatest value that is not NULL, NULL if none
MaxSortOrder(t) ==
    LET vals == {t[i].sort_order : i \in Ids(t)} \ {Null}
    IN IF vals = {} THEN Null
       ELSE CHOOSE v \in vals : \A w \in vals : ~SqlLess(v, w)

\* (maxSortOrder.max || 0) + 1
NextSortOrder(max) ==
    LET m == IF Truthy(max) THEN max ELSE Num(0)
    IN IF m.k = "string" THEN Str(m.v \o <<"1">>) ELSE Num(m.v + 1)

\* x ? 1 : 0
Flag(x) == IF Truthy(x) THEN Num(1) ELSE Num(0)

\* a rowid chosen as for a table without AUTOINCREMENT: one more than the
\* largest rowid stored
NextRowid_Reuse(t, s) ==
    IF Ids(t) = {} THEN 1 ELSE (CHOOSE i \in Ids(t) : \A j \in Ids(t) : j <= i) + 1

\* id INTEGER PRIMARY KEY AUTOINCREMENT: one more than the largest rowid the
\* table has ever held, which sqlite_sequence remembers
NextRowid(t, s) == s + 1

CreateTask ==
    /\ Handling("create")
    /\ LET b == req.body
           description == Default(b.description, Str(<<>>))
           due == Default(b.due_date, Null)
           done == Default(b.completed, Num(0))
       IN IF BlankTitle(b.title)
          THEN /\ Reply(Error(400, "Task title is required"))
               /\ UNCHANGED <<tasks, seq>>
          ELSE IF ~Bindable(description) \/ ~Bindable(due)
          THEN /\ Reply(Error(500, "Failed to create task"))
               /\ UNCHANGED <<tasks, seq>>
          ELSE LET id == NextRowid(tasks, seq)
                   new == Row(id, Str(Trim(b.title.v)), description, due, Flag(done),
                              IntegerAffinity(NextSortOrder(MaxSortOrder(tasks))), now)
               IN /\ tasks' = [i \in Ids(tasks) \cup {id} |->
                                  IF i = id THEN new ELSE tasks[i]]
                  /\ seq' = id
                  /\ Reply(Ok(201, new))

(***************************************************************************)
(* PUT /api/tasks/:id                                                      *)
(***************************************************************************)
\* an UPDATE that sets all four fields, the absent ones to NULL
Patch_Overwrite(row, b, at) ==
    [row EXCEPT
        !.title = IF b.title # Undefined THEN Str(Trim(b.title.v)) ELSE @,
        !.description = IF b.description # Undefined THEN b.description ELSE Null,
        !.due_date = IF b.due_date # Undefined THEN b.due_date ELSE Null,
        !.completed = IF b.completed # Undefined THEN Flag(b.completed) ELSE Num(0),
        !.updated_at = Num(at)]

\* an UPDATE without updated_at = CURRENT_TIMESTAMP in its SET list
Patch_NoTimestamp(row, b, at) ==
    [row EXCEPT
        !.title = IF b.title # Undefined THEN Str(Trim(b.title.v)) ELSE @,
        !.description = IF b.description # Undefined THEN b.description ELSE @,
        !.due_date = IF b.due_date # Undefined THEN b.due_date ELSE @,
        !.completed = IF b.completed # Undefined THEN Flag(b.completed) ELSE @]

\* the SET list built from the fields the body supplies
Patch(row, b, at) ==
    [row EXCEPT
        !.title = IF b.title # Undefined THEN Str(Trim(b.title.v)) ELSE @,
        !.description = IF b.description # Undefined THEN b.description ELSE @,
        !.due_date = IF b.due_date # Undefined THEN b.due_date ELSE @,
        !.completed = IF b.completed # Undefined THEN Flag(b.completed) ELSE @,
        !.updated_at = Num(at)]

UpdateTask ==
    /\ Handling("update")
    /\ LET b == req.body
           hit == GetRow(tasks, req.id)
       IN IF BadId(req.id)
          THEN /\ Reply(Error(400, "Valid task ID is required"))
               /\ UNCHANGED tasks
          ELSE IF hit = {}
          THEN /\ Reply(Error(404, "Task not found"))
               /\ UNCHANGED tasks
          ELSE IF b.title # Undefined /\ BlankTitle(b.title)
          THEN /\ Reply(Error(400, "Task title cannot be empty"))
               /\ UNCHANGED tasks
          ELSE IF \/ b.description # Undefined /\ ~Bindable(b.description)
                  \/ b.due_date # Undefined /\ ~Bindable(b.due_date)
          THEN /\ Reply(Error(500, "Failed to update task"))
               /\ UNCHANGED tasks
          ELSE /\ tasks' = [i \in Ids(tasks) |->
                               IF i \in hit THEN Patch(tasks[i], b, now) ELSE tasks[i]]
               /\ Reply(Ok(200, tasks'[CHOOSE i \in hit : TRUE]))
    /\ UNCHANGED seq

(***************************************************************************)
(* PATCH /api/tasks/:id/toggle                                             *)
(***************************************************************************)
\* a toggle that always marks the task complete
Toggled_AlwaysDone(row, at) ==
    [row EXCEPT !.completed = Num(1), !.updated_at = Num(at)]

\* toggleStmt.run(task.completed ? 0 : 1, id)
Toggled(row, at) ==
    [row EXCEPT !.completed = IF Truthy(row.completed) THEN Num(0) ELSE Num(1),
                !.updated_at = Num(at)]

ToggleTask ==
    /\ Handling("toggle")
    /\ LET hit == GetRow(tasks, req.id)
       IN IF BadId(req.id)
          THEN /\ Reply(Error(400, "Valid task ID is required"))
               /\ UNCHANGED tasks
          ELSE IF hit = {}
          THEN /\ Reply(Error(404, "Task not found"))
               /\ UNCHANGED tasks
          ELSE /\ tasks' = [i \in Ids(tasks) |->
                               IF i \in hit THEN Toggled(tasks[i], now) ELSE tasks[i]]
               /\ Reply(Ok(200, tasks'[CHOOSE i \in hit : TRUE]))
    /\ UNCHANGED seq

(***************************************************************************)
(* DELETE /api/tasks/:id                                                   *)
(***************************************************************************)
DeleteTask ==
    /\ Handling("delete")
    /\ LET hit == GetRow(tasks, req.id)
       IN IF BadId(req.id)
          THEN /\ Reply(Error(400, "Valid task ID is required"))
               /\ UNCHANGED tasks
          ELSE IF hit = {}
          THEN /\ Reply(Error(404, "Task not found"))
               /\ UNCHANGED tasks
          ELSE /\ tasks' = Remove(tasks, hit)
               /\ Reply(Ok(200, ParseInt(req.id)))
    /\ UNCHANGED seq

(***************************************************************************)
(* The client and the clock                                                *)
(***************************************************************************)
\* a request arrives; a create is sent only while the model has ids left
Send(R) ==
    /\ pc = "idle"
    /\ \E r \in R :
        /\ r.op = "create" => seq < MaxId
        /\ req' = r
    /\ pc' = "sent"
    /\ res' = NoRes
    /\ UNCHANGED <<tasks, seq, now, hist, view, calls>>

\* the response is delivered
Receive ==
    /\ pc = "replied"
    /\ pc' = "idle"
    /\ req' = NoReq
    /\ res' = NoRes
    /\ UNCHANGED <<tasks, seq, now, hist, view, calls>>

\* a second passes
Tick ==
    /\ pc = "idle"
    /\ now < MaxClock
    /\ now' = now + 1
    /\ UNCHANGED <<tasks, seq, pc, req, res, hist, view, calls>>

(***************************************************************************)
(* Requests                                                                *)
(***************************************************************************)
Array(s) == [k |-> "array", v |-> s]
SeqsUpTo(S, n) == UNION {[1..m -> S] : m \in 0..n}

Assignments(ids, values) == {[id |-> i, sort_order |-> v] : i \in ids, v \in values}
ReorderOf(batches) == {[op |-> "reorder", tasks |-> Array(b)] : b \in batches}
NoBatch == {[op |-> "reorder", tasks |-> x] : x \in {Undefined, Str(<<"x">>)}}

\* the ids of the model, as JSON numbers and as path parameters
IdNums == {Num(i) : i \in 1..MaxId}
IdParam(i) == <<Digits[i + 1]>>
IdParams == {IdParam(i) : i \in 1..MaxId}
SortNums == {Num(n) : n \in 0..MaxSort}

Body(t, d, due, c) == [title |-> t, description |-> d, due_date |-> due, completed |-> c]
CreateOf(bodies) == {[op |-> "create", body |-> b] : b \in bodies}
UpdateOf(ids, bodies) == {[op |-> "update", id |-> i, body |-> b] : i \in ids, b \in bodies}
ToggleOf(ids) == {[op |-> "toggle", id |-> i] : i \in ids}
DeleteOf(ids) == {[op |-> "delete", id |-> i] : i \in ids}
GetOf(ids) == {[op |-> "get", id |-> i] : i \in ids}
ListOf(keys, orders) == {[op |-> "list", sortBy |-> k, order |-> o] : k \in keys, o \in orders}

(***************************************************************************)
(* Requests under way at once.  The server takes them up in any order and  *)
(* runs each handler to completion before the next.                        *)
(***************************************************************************)
\* request r is sent by the client named, while fewer than atOnce are under
\* way, and goes into the first free slot; a create only while the model
\* has ids left, one for each request that may be under way
Launch(r, by, atOnce) ==
    LET free == {i \in Slots : calls[i] = NoCall}
        first == CHOOSE i \in free : \A j \in free : i <= j
        creating == {i \in Slots : calls[i].state = "waiting" /\ calls[i].req.op = "create"}
    IN /\ Cardinality(Slots \ free) < atOnce
       /\ r.op = "create" => seq + Cardinality(creating) < NumSamples + atOnce
       /\ calls' = [calls EXCEPT ![first] = Call(r, by, view.tasks, tasks)]

\* a client other than the TaskList sends a request
Arrive(R) ==
    /\ \E r \in R : Launch(r, "other", MaxFlights)
    /\ UNCHANGED <<tasks, seq, now, pc, req, res, hist, view>>

\* the server takes up one of the requests that wait
Serve ==
    /\ pc = "idle"
    /\ \E i \in Slots :
        /\ calls[i].state = "waiting"
        /\ req' = calls[i].req
        /\ calls' = [calls EXCEPT ![i].state = "serving", ![i].on = tasks]
    /\ pc' = "sent"
    /\ res' = NoRes
    /\ UNCHANGED <<tasks, seq, now, hist, view>>

\* the response reaches the client that waits for it
Deliver ==
    /\ pc = "replied"
    /\ \E i \in Slots :
        /\ calls[i].state = "serving"
        /\ calls' = [calls EXCEPT ![i].state = "answered", ![i].res = res]
    /\ pc' = "idle"
    /\ req' = NoReq
    /\ res' = NoRes
    /\ UNCHANGED <<tasks, seq, now, hist, view>>

(***************************************************************************)
(* The TaskList component                                                  *)
(***************************************************************************)
\* loading: a fetchTasks is under way
Loading ==
    \E i \in Slots : calls[i] # NoCall /\ calls[i].by = "TaskList" /\ calls[i].req.op = "list"

\* if (loading && tasks.length === 0) the component renders only a spinner
Rendered == ~(Loading /\ view.tasks = <<>>)

\* fetch(`/api/tasks?sortBy=${sortBy}&order=${sortOrder}`)
FetchOf(sortBy, sortOrder) == [op |-> "list", sortBy |-> Str(sortBy), order |-> Str(sortOrder)]

\* the effect that runs fetchTasks when the component has mounted
Mounted ==
    /\ tasks = SeededTasks
    /\ seq = NumSamples
    /\ now = 0
    /\ pc = "idle"
    /\ req = NoReq
    /\ res = NoRes
    /\ hist = [on |-> FALSE, prev |-> NoEntry, last |-> NoEntry]
    /\ view = Unmounted
    /\ calls = [i \in Slots |->
                   IF i = 1
                   THEN Call(FetchOf(Unmounted.sortBy, Unmounted.sortOrder), "TaskList", <<>>,
                             SeededTasks)
                   ELSE NoCall]

\* setSortBy(e.target.value), and the effect that runs the new fetchTasks
SetSortBy(fields, atOnce) ==
    /\ Rendered
    /\ \E f \in fields :
        /\ f # view.sortBy
        /\ view' = [view EXCEPT !.sortBy = f]
        /\ Launch(FetchOf(f, view.sortOrder), "TaskList", atOnce)
    /\ UNCHANGED <<tasks, seq, now, pc, req, res, hist>>

\* setSortOrder(e.target.value), and the effect that runs the new fetchTasks
SetSortOrder(atOnce) ==
    /\ Rendered
    /\ \E o \in validOrders :
        /\ o # view.sortOrder
        /\ view' = [view EXCEPT !.sortOrder = o]
        /\ Launch(FetchOf(view.sortBy, o), "TaskList", atOnce)
    /\ UNCHANGED <<tasks, seq, now, pc, req, res, hist>>

\* n in decimal, w digits wide
RECURSIVE Pad(_, _)
Pad(n, w) == IF w = 0 THEN <<>> ELSE Pad(n \div 10, w - 1) \o <<Digits[(n % 10) + 1]>>

\* new Date('YYYY-MM-DD'): that day at 00:00 UTC
NewDate(s) ==
    [year |-> DigitsValue(SubSeq(s, 1, 4)), month |-> DigitsValue(SubSeq(s, 6, 7)),
     day |-> DigitsValue(SubSeq(s, 9, 10))]

\* dueDate.toISOString().split('T')[0]
ISODate(d) == Pad(d.year, 4) \o <<"-">> \o Pad(d.month, 2) \o <<"-">> \o Pad(d.day, 2)

\* x || ''
OrEmpty(x) == IF Truthy(x) THEN x.v ELSE <<>>

\* the taskData that TaskForm hands to onSave: for a new task when task is
\* Null, else for the task edited, with the title typed
TaskData(typed, task) ==
    LET description == IF task = Null THEN <<>> ELSE OrEmpty(task.description)
        dueDate == IF task # Null /\ Truthy(task.due_date) THEN NewDate(task.due_date.v)
                   ELSE Null
    IN Body(Str(Trim(typed)), Str(Trim(description)),
            IF dueDate # Null THEN Str(ISODate(dueDate)) ELSE Null,
            IF task = Null THEN Undefined ELSE task.completed)

\* the part of handleAddTask before its await: the POST is sent
handleAddTask(typed, atOnce) ==
    /\ Rendered
    /\ \E t \in typed : Launch([op |-> "create", body |-> TaskData(t, Null)], "TaskList", atOnce)
    /\ UNCHANGED <<tasks, seq, now, pc, req, res, hist, view>>

\* the tasks on display whose cards the user works on
Cards(ids) == {j \in 1..Len(view.tasks) : view.tasks[j].id \in ids}

\* the part of handleUpdateTask before its await: the PUT for a task shown
handleUpdateTask(typed, ids, atOnce) ==
    /\ Rendered
    /\ \E t \in typed, j \in Cards(ids) :
        Launch([op |-> "update", id |-> IdParam(view.tasks[j].id),
                body |-> TaskData(t, view.tasks[j])], "TaskList", atOnce)
    /\ UNCHANGED <<tasks, seq, now, pc, req, res, hist, view>>

\* the part of handleToggleTask before its await: the PATCH for a task shown
handleToggleTask(ids, atOnce) ==
    /\ Rendered
    /\ \E j \in Cards(ids) :
        Launch([op |-> "toggle", id |-> IdParam(view.tasks[j].id)], "TaskList", atOnce)
    /\ UNCHANGED <<tasks, seq, now, pc, req, res, hist, view>>

\* the part of handleDeleteTask before its await (the user confirms): the
\* DELETE for a task shown
handleDeleteTask(ids, atOnce) ==
    /\ Rendered
    /\ \E j \in Cards(ids) :
        Launch([op |-> "delete", id |-> IdParam(view.tasks[j].id)], "TaskList", atOnce)
    /\ UNCHANGED <<tasks, seq, now, pc, req, res, hist, view>>

\* response.ok
IsOk(r) == r.status >= 200 /\ r.status <= 299

\* tasks.map(t => t.id === updatedTask.id ? updatedTask : t)
MapTask(list, updatedTask) ==
    [j \in 1..Len(list) |-> IF list[j].id = updatedTask.id THEN updatedTask ELSE list[j]]

\* tasks.filter(t => t.id !== taskId)
FilterTask(list, taskId) == SelectSeq(list, LAMBDA t : IdParam(t.id) # taskId)

\* what the handler of call c passes to setTasks after its await (the list
\* on display stays when the response is an error): the handlers of the four
\* mutations work on the tasks they closed over
SetTasks(c, current) ==
    IF ~IsOk(c.res) THEN current
    ELSE CASE c.req.op = "list" -> c.res.body
           [] c.req.op = "create" -> Append(c.closure, c.res.body)
           [] c.req.op \in {"update", "toggle"} -> MapTask(c.closure, c.res.body)
           [] c.req.op = "delete" -> FilterTask(c.closure, c.req.id)

\* the client takes the response: the TaskList handler resumes after its
\* await, another client is done
Resume ==
    /\ \E i \in Slots :
        /\ calls[i].state = "answered"
        /\ view' = IF calls[i].by = "TaskList"
                   THEN [view EXCEPT !.tasks = SetTasks(calls[i], view.tasks)]
                   ELSE view
        /\ calls' = [calls EXCEPT ![i] = NoCall]
    /\ UNCHANGED <<tasks, seq, now, pc, req, res, hist>>

(***************************************************************************)
(* Specifications.  Each draws its requests from a small set; they share   *)
(* the handlers.                                                           *)
(***************************************************************************)
InitRecording ==
    /\ tasks = SeededTasks
    /\ seq = NumSamples
    /\ now = 0
    /\ pc = "idle"
    /\ req = NoReq
    /\ res = NoRes
    /\ hist = [on |-> TRUE, prev |-> NoEntry, last |-> NoEntry]
    /\ view = Unmounted
    /\ calls = [i \in Slots |-> NoCall]

\* every route, with the titles a client may send
Blank1 == Str(<<" ">>)
PaddedA == Str(<<" ", "a", " ">>)
Titles == {Null, Num(1), Str(<<>>), Blank1, PaddedA}

Requests ==
    CreateOf({Body(t, Undefined, Undefined, Undefined) : t \in Titles \cup {Undefined}})
        \cup UpdateOf(IdParams, {Body(t, Undefined, Undefined, Undefined) : t \in Titles})
        \cup ToggleOf(IdParams)
        \cup DeleteOf(IdParams)
        \cup GetOf(IdParams)
        \cup ListOf({Undefined}, {Undefined})
        \cup ReorderOf(SeqsUpTo(Assignments(IdNums, {Num(0)}), 1))

Next ==
    \/ Send(Requests)
    \/ ReorderTasks
    \/ ListTasks
    \/ GetTask
    \/ CreateTask
    \/ UpdateTask
    \/ ToggleTask
    \/ DeleteTask
    \/ Receive

Spec == Init /\ [][Next]_vars

\* reorder batches of every shape over two of the sample tasks, and deletes
\* of them
ReorderRequests ==
    ReorderOf(SeqsUpTo(Assignments({Undefined, Num(1), Num(2)},
                                   {Undefined, Bool(TRUE), Num(0), Num(1)}), MaxBatch))
        \cup NoBatch
        \cup DeleteOf({IdParam(1), IdParam(2)})

NextReorder ==
    \/ Send(ReorderRequests)
    \/ ReorderTasks
    \/ DeleteTask
    \/ Receive
    \/ Tick

SpecReorder == Init /\ [][NextReorder]_vars

\* reorder batches with one assignment for each sample task, its sort_order
\* a number or absent
PermBatches ==
    {[i \in 1..NumSamples |-> [id |-> Num(i), sort_order |-> f[i]]] :
        f \in [1..NumSamples -> {Undefined} \cup SortNums]}

PermRequests ==
    ReorderOf(PermBatches)
        \cup DeleteOf(IdParams)
        \cup ListOf({Str(sort_order)}, {Str(ASC)})

NextPerm ==
    \/ Send(PermRequests)
    \/ ReorderTasks
    \/ DeleteTask
    \/ ListTasks
    \/ Receive

SpecPerm == Init /\ [][NextPerm]_vars

\* creates among deletes and reorders that store every kind of value
CreateRequests ==
    CreateOf({Body(Str(<<"a">>), Undefined, Undefined, Undefined)})
        \cup DeleteOf(IdParams)
        \cup ReorderOf(SeqsUpTo(Assignments(IdNums, {Null, Str(<<>>)} \cup SortNums), 1))

NextCreate ==
    \/ Send(CreateRequests)
    \/ CreateTask
    \/ DeleteTask
    \/ ReorderTasks
    \/ Receive

SpecCreate == Init /\ [][NextCreate]_vars

\* listings on every column in both directions, over rows that tie on each
Lists == ListOf({Str(f) : f \in validSortFields}, {Str(ASC), Str(DESC)})

ListRequests ==
    Lists
        \cup CreateOf({Body(Str(<<"T">>), Undefined, d, Undefined) : d \in {Undefined, Date1223}})
        \cup ReorderOf({<<a>> : a \in Assignments({Num(1), Num(NumSamples + 1)}, SortNums)})

NextList ==
    \/ Send(ListRequests)
    \/ ListTasks
    \/ CreateTask
    \/ ReorderTasks
    \/ Receive
    \/ Tick

SpecList == Init /\ [][NextList]_vars

\* toggles, with the answered requests recorded
ToggleRequests ==
    ToggleOf(IdParams)
        \cup UpdateOf(IdParams, {Body(Undefined, Undefined, Undefined, Bool(TRUE))})
        \cup DeleteOf(IdParams)

NextToggle ==
    \/ Send(ToggleRequests)
    \/ ToggleTask
    \/ UpdateTask
    \/ DeleteTask
    \/ Receive
    \/ Tick

SpecToggle == InitRecording /\ [][NextToggle]_vars

\* creates that supply or omit each optional field, among deletes
CreateBodies ==
    {Body(t, d, due, c) : t \in {PaddedA, Str(<<"a">>)}, d \in {Undefined, Str(<<"d">>)},
                          due \in {Undefined, Date1223}, c \in {Undefined, Bool(TRUE)}}

DefaultsRequests ==
    CreateOf(CreateBodies) \cup DeleteOf(IdParams)

NextDefaults ==
    \/ Send(DefaultsRequests)
    \/ CreateTask
    \/ DeleteTask
    \/ Receive
    \/ Tick

SpecDefaults == Init /\ [][NextDefaults]_vars

\* updates that supply or omit each field, of a stored task and of an id
\* that is never stored, among toggles and reorders
UpdateBodies ==
    {Body(t, d, due, c) : t \in {Undefined, Blank1, PaddedA}, d \in {Undefined, Str(<<"x">>)},
                          due \in {Undefined, Null},
                          c \in {Undefined, Bool(TRUE), Bool(FALSE)}}

PatchRequests ==
    UpdateOf({IdParam(1), IdParam(MaxId)}, UpdateBodies)
        \cup ToggleOf({IdParam(1), IdParam(2)})
        \cup ReorderOf({<<a>> : a \in Assignments({Num(1), Num(2)}, {Num(0)})})

NextPatch ==
    \/ Send(PatchRequests)
    \/ UpdateTask
    \/ ToggleTask
    \/ ReorderTasks
    \/ Receive
    \/ Tick

SpecPatch == Init /\ [][NextPatch]_vars

\* the :id routes called with the id of a sample task, an id never stored,
\* and ids that are no integers
Junk == <<"x">>
Junk1 == <<"1", "x">>

IdsRequests ==
    LET ids == {IdParam(1), IdParam(MaxId), Junk, Junk1}
    IN GetOf(ids)
        \cup UpdateOf(ids, {Body(t, Undefined, Undefined, Undefined) : t \in {Undefined, Blank1}})
        \cup ToggleOf(ids)
        \cup DeleteOf(ids)

NextIds ==
    \/ Send(IdsRequests)
    \/ GetTask
    \/ UpdateTask
    \/ ToggleTask
    \/ DeleteTask
    \/ Receive
    \/ Tick

SpecIds == Init /\ [][NextIds]_vars

\* deletes, each followed by whatever the client asks next, with the
\* answered requests recorded
DeleteRequests ==
    DeleteOf(IdParams)
        \cup GetOf(IdParams)
        \cup ListOf({Str(sort_order)}, {Str(ASC)})

NextDelete ==
    \/ Send(DeleteRequests)
    \/ DeleteTask
    \/ GetTask
    \/ ListTasks
    \/ Receive
    \/ Tick

SpecDelete == InitRecording /\ [][NextDelete]_vars

\* every route that writes, on the first sample task and on the first task
\* created, as the clock advances
TimeRequests ==
    LET ids == {IdParam(1), IdParam(NumSamples + 1)}
    IN UpdateOf(ids, {Body(Undefined, Undefined, Undefined, c) : c \in {Undefined, Bool(TRUE)}})
        \cup ToggleOf(ids)
        \cup DeleteOf(ids)
        \cup CreateOf({Body(Str(<<"a">>), Undefined, Undefined, Undefined)})
        \cup ReorderOf({<<a>> : a \in Assignments({Num(1), Num(NumSamples + 1)}, {Num(0)})})

NextTime ==
    \/ Send(TimeRequests)
    \/ UpdateTask
    \/ ToggleTask
    \/ DeleteTask
    \/ CreateTask
    \/ ReorderTasks
    \/ Receive
    \/ Tick

SpecTime == Init /\ [][NextTime]_vars

\* listings whose sort key is absent, unknown, or no string, in each
\* direction, over tasks created at different times
FallbackRequests ==
    ListOf({Undefined, Str(Junk), Array(<<Str(title)>>), Str(created_at)},
           {Undefined, Str(ASC), Str(DESC)})
        \cup CreateOf({Body(Str(<<"a">>), Undefined, Undefined, Undefined)})
        \cup DeleteOf(IdParams)

NextFallback ==
    \/ Send(FallbackRequests)
    \/ ListTasks
    \/ CreateTask
    \/ DeleteTask
    \/ Receive
    \/ Tick

SpecFallback == Init /\ [][NextFallback]_vars

\* listings in every kind of direction a query string can carry: none,
\* lower case, unknown, empty, and ?order[]=ASC, which the query parser
\* turns into an array; gets, creates and deletes around them
Directions ==
    {Undefined, Str(<<"a", "s", "c">>), Str(<<"x">>), Str(<<>>), Str(DESC),
     Array(<<Str(ASC)>>)}

DirectionRequests ==
    ListOf({Undefined, Str(title), Str(sort_order)}, Directions)
        \cup GetOf({IdParam(1), IdParam(MaxId)})
        \cup CreateOf({Body(Str(<<"a">>), Undefined, Undefined, Undefined)})
        \cup DeleteOf(IdParams)

NextDirection ==
    \/ Send(DirectionRequests)
    \/ ListTasks
    \/ GetTask
    \/ CreateTask
    \/ DeleteTask
    \/ Receive
    \/ Tick

SpecDirection == Init /\ [][NextDirection]_vars

\* reorder batches that name a sample task, a task that is stored only
\* after a create, and ids that are no numbers, among creates and deletes
StrayRequests ==
    ReorderOf(SeqsUpTo(Assignments({Num(1), Num(MaxId), Str(Junk), Bool(TRUE)},
                                   {Num(1)}), MaxBatch))
        \cup CreateOf({Body(Str(<<"a">>), Undefined, Undefined, Undefined)})
        \cup DeleteOf(IdParams)

NextStray ==
    \/ Send(StrayRequests)
    \/ ReorderTasks
    \/ CreateTask
    \/ DeleteTask
    \/ Receive
    \/ Tick

SpecStray == Init /\ [][NextStray]_vars

\* toggles and deletes of one of the sample tasks, sent by clients that do
\* not wait for one another
OverlapRequests ==
    ToggleOf({IdParam(1)}) \cup DeleteOf({IdParam(1)})

NextOverlap ==
    \/ Arrive(OverlapRequests)
    \/ Serve
    \/ ToggleTask
    \/ DeleteTask
    \/ Deliver
    \/ Resume
    \/ Tick

SpecOverlap == Init /\ [][NextOverlap]_vars

\* reorder batches that succeed and that fail half way, sent among
\* listings, gets and updates by clients that do not wait for one another,
\* all within one second, with the answered requests recorded
InterleaveBatches ==
    {<<[id |-> Num(1), sort_order |-> Num(2)], [id |-> Num(2), sort_order |-> Num(2)]>>,
     <<[id |-> Num(1), sort_order |-> Num(1)], [id |-> Num(2), sort_order |-> Bool(TRUE)]>>}

InterleaveRequests ==
    ReorderOf(InterleaveBatches)
        \cup ListOf({Str(sort_order)}, {Str(ASC)})
        \cup GetOf({IdParam(1)})
        \cup UpdateOf({IdParam(1)}, {Body(Str(<<"a">>), Undefined, Undefined, Undefined)})

NextInterleave ==
    \/ Arrive(InterleaveRequests)
    \/ Serve
    \/ ReorderTasks
    \/ ListTasks
    \/ GetTask
    \/ UpdateTask
    \/ Deliver
    \/ Resume

SpecInterleave == InitRecording /\ [][NextInterleave]_vars

\* creates sent by clients that do not wait for one another, among
\* reorders that store a number or a text
AtOnceRequests ==
    CreateOf({Body(Str(<<"a">>), Undefined, Undefined, Undefined)})
        \cup ReorderOf({<<[id |-> Num(1), sort_order |-> v]>> : v \in {Num(MaxSort), Str(<<>>)}})

NextAtOnce ==
    \/ Arrive(AtOnceRequests)
    \/ Serve
    \/ CreateTask
    \/ ReorderTasks
    \/ Deliver
    \/ Resume
    \/ Tick

SpecAtOnce == Init /\ [][NextAtOnce]_vars

\* the TaskList once mounted, its user adding tasks and toggling and
\* deleting a sample task without waiting for the responses, all within
\* one second; the title typed is 'a'
NextRace ==
    \/ handleAddTask({<<"a">>}, MaxFlights)
    \/ handleToggleTask({1}, MaxFlights)
    \/ handleDeleteTask({1}, MaxFlights)
    \/ Serve
    \/ ListTasks
    \/ CreateTask
    \/ ToggleTask
    \/ DeleteTask
    \/ Deliver
    \/ Resume

SpecRace == Mounted /\ [][NextRace]_vars

\* the TaskList once mounted, its user choosing the sort key and direction
\* and adding tasks and editing and toggling sample tasks, one request at
\* a time; the title typed is 'a'
NextView ==
    \/ SetSortBy({created_at, completed}, 1)
    \/ SetSortOrder(1)
    \/ handleAddTask({<<"a">>}, 1)
    \/ handleUpdateTask({<<"a">>}, {2}, 1)
    \/ handleToggleTask({1}, 1)
    \/ Serve
    \/ ListTasks
    \/ CreateTask
    \/ UpdateTask
    \/ ToggleTask
    \/ Deliver
    \/ Resume
    \/ Tick

SpecView == Mounted /\ [][NextView]_vars

(***************************************************************************)
(* Properties                                                              *)
(***************************************************************************)
\* the handler of a request of kind op runs
Step(op) == pc = "sent" /\ req.op = op /\ pc' = "replied"

\* the handler of a request of kind op has answered with status
Answered(op, status) == pc = "replied" /\ req.op = op /\ res.status = status

\* the batch of the reorder request at hand
Batch == IF IsArray(req.tasks) THEN req.tasks.v ELSE <<>>

\* the assignments of batch b that carry both fields and name task i
Naming(b, i) ==
    {k \in 1..Len(b) : b[k].id = Num(i) /\ b[k].sort_order # Undefined}

\* C1: a successful create gives the new task 1 + the greatest sort_order
\* among the tasks present before it (1 when there is none), and the new
\* task is last when the tasks are listed by sort_order ascending.
C1_NewTaskSortsLast ==
    [][Step("create") /\ res'.status = 201 =>
        LET new == res'.body
            max == MaxSortOrder(tasks)
            listed == OrderBy(tasks', sort_order, ASC)
        IN /\ \/ max = Null /\ new.sort_order = Num(1)
              \/ max.k = "number" /\ new.sort_order = Num(max.v + 1)
           /\ listed[Len(listed)].id = new.id]_vars

\* C4: a reorder that fails leaves no sort_order of its batch in the store.
C4_ReorderAllOrNothing ==
    [][Step("reorder") /\ res'.status # 200 =>
        \A i \in Ids(tasks) : tasks'[i].sort_order = tasks[i].sort_order]_vars

\* C5: reorder with an empty batch or with no array answers 400 'Tasks array
\* is required' and changes no row.
C5_ReorderRejectsEmpty ==
    [][Step("reorder") /\ Batch = <<>> =>
        /\ res' = Error(400, "Tasks array is required")
        /\ tasks' = tasks]_vars

C5_Witness ==
    /\ Answered("reorder", 400)
    /\ req.tasks = Array(<<>>)
    /\ now > 0
    /\ \E i \in Ids(tasks) : tasks[i].updated_at # Num(now)

\* C6: in a non-empty batch every assignment with both fields sets its
\* task's sort_order to the value given (the last one for a task stands) and
\* refreshes updated_at, the others write nothing, and the call is
\* acknowledged.
C6_ReorderAppliesEach ==
    [][Step("reorder") /\ Batch # <<>> =>
        /\ res'.status = 200
        /\ \A i \in Ids(tasks) :
            LET ks == Naming(Batch, i)
                last == CHOOSE k \in ks : \A j \in ks : j <= k
            IN IF ks = {} THEN tasks'[i] = tasks[i]
               ELSE /\ tasks'[i].sort_order = Batch[last].sort_order
                    /\ tasks'[i].updated_at = Num(now)]_vars

\* C7: reorder leaves every task that no assignment of the batch names
\* exactly as it was.
C7_ReorderFrame ==
    [][Step("reorder") =>
        \A i \in Ids(tasks) :
            (\A k \in 1..Len(Batch) : Batch[k].id # Num(i)) =>
                i \in Ids(tasks') /\ tasks'[i] = tasks[i]]_vars

C7_Witness ==
    /\ Answered("reorder", 200)
    /\ \E i, j \in Ids(tasks) :
        /\ i # j
        /\ \A k \in 1..Len(Batch) : Batch[k].id # Num(i)
        /\ Naming(Batch, j) # {}
        /\ tasks[j].updated_at # tasks[i].updated_at
        /\ tasks[j].sort_order = tasks[i].sort_order

\* the task i that the batch names once, with a number
Value(b, i) == b[CHOOSE k \in Naming(b, i) : TRUE].sort_order

\* batch b gives every task of t one number, no two tasks the same
Permutes(b, t) ==
    /\ Ids(t) # {}
    /\ \A i \in Ids(t) : Cardinality(Naming(b, i)) = 1 /\ Value(b, i).k = "number"
    /\ \A i, j \in Ids(t) : i # j => Value(b, i) # Value(b, j)

\* C8: after a reorder that gives every task of the store its own
\* sort_order, the listing by sort_order ascending is in increasing order of
\* the values given.
C8_ReorderThenList ==
    [][Step("reorder") /\ res'.status = 200 /\ Permutes(Batch, tasks) =>
        LET listed == OrderBy(tasks', sort_order, ASC)
        IN /\ Len(listed) = Cardinality(Ids(tasks))
           /\ \A j, k \in 1..Len(listed) :
                j < k => Value(Batch, listed[j].id).v < Value(Batch, listed[k].id).v]_vars

C8_Witness ==
    /\ Answered("reorder", 200)
    /\ Batch = <<[id |-> Num(1), sort_order |-> Num(2)],
                 [id |-> Num(2), sort_order |-> Num(0)],
                 [id |-> Num(3), sort_order |-> Num(1)]>>
    /\ LET listed == OrderBy(tasks, sort_order, ASC)
       IN [j \in 1..Len(listed) |-> listed[j].id] = <<2, 3, 1>>

\* the value a listing is sorted on, and its direction
KeyOf(row) == row[Column(req.sortBy.v)]
Ascending == req.order = Str(ASC)

\* C2: a listing on a recognized column and direction holds exactly the
\* stored rows, sorted on the column, rows equal on it in ascending id
\* order: one sequence for one store.
C2_TiesById ==
    Answered("list", 200) =>
        LET rows == res.body
        IN /\ Len(rows) = Cardinality(Ids(tasks))
           /\ \A i \in Ids(tasks) : \E j \in 1..Len(rows) : rows[j] = tasks[i]
           /\ \A j, k \in 1..Len(rows) :
                j < k =>
                    IF KeyOf(rows[j]) = KeyOf(rows[k]) THEN rows[j].id < rows[k].id
                    ELSE IF Ascending THEN SqlLess(KeyOf(rows[j]), KeyOf(rows[k]))
                    ELSE SqlLess(KeyOf(rows[k]), KeyOf(rows[j]))

C2_Witness ==
    /\ Answered("list", 200)
    /\ req.sortBy = Str(sort_order)
    /\ req.order = Str(DESC)
    /\ Len(res.body) = 4
    /\ res.body[1].sort_order = res.body[2].sort_order
    /\ res.body[3].sort_order = res.body[4].sort_order
    /\ res.body[2].sort_order # res.body[3].sort_order

\* the day a YYYY-MM-DD text names, as a number
DateNumber(x) ==
    10000 * DigitsValue(SubSeq(x.v, 1, 4)) + 100 * DigitsValue(SubSeq(x.v, 6, 7))
        + DigitsValue(SubSeq(x.v, 9, 10))

\* C3: in a listing by due_date ascending every row without a due date
\* comes before every row with one, and the dates do not decrease.
C3_NullsFirst ==
    Answered("list", 200) /\ req.sortBy = Str(due_date) /\ Ascending =>
        LET rows == res.body
        IN \A j, k \in 1..Len(rows) :
            j < k =>
                /\ rows[k].due_date = Null => rows[j].due_date = Null
                /\ rows[j].due_date # Null /\ rows[k].due_date # Null =>
                        DateNumber(rows[j].due_date) <= DateNumber(rows[k].due_date)

C3_Witness ==
    /\ Answered("list", 200)
    /\ req.sortBy = Str(due_date)
    /\ Ascending
    /\ Len(res.body) = 4
    /\ res.body[1].due_date = Null
    /\ res.body[1].id = 4
    /\ DateNumber(res.body[2].due_date) < DateNumber(res.body[4].due_date)

\* entry e of the record is an acknowledged toggle of the task with path
\* parameter id
ToggleOn(e, id) == e.req.op = "toggle" /\ e.req.id = id /\ e.status = 200

Except(row) == [row EXCEPT !.updated_at = Null]

\* C9, amended: a toggle flips completed, and two toggles in succession
\* return the row to what it was in every field but updated_at.
C9_ToggleTwice ==
    Answered("toggle", 200) =>
        LET i == ParseInt(req.id).v
        IN /\ tasks[i].completed = Num(1 - hist.last.before[i].completed.v)
           /\ ToggleOn(hist.prev, req.id) =>
                Except(tasks[i]) = Except(hist.prev.before[i])

\* C9 as claimed: two toggles in succession return the row to what it was
\* in every field.
C9_ToggleTwiceEveryField ==
    Answered("toggle", 200) =>
        LET i == ParseInt(req.id).v
        IN /\ tasks[i].completed = Num(1 - hist.last.before[i].completed.v)
           /\ ToggleOn(hist.prev, req.id) =>
                tasks[i] = hist.prev.before[i]

C9_Witness ==
    /\ Answered("toggle", 200)
    /\ ToggleOn(hist.prev, req.id)
    /\ LET i == ParseInt(req.id).v
           was == hist.prev.before[i]
       IN /\ tasks[i].completed = was.completed
          /\ tasks[i].updated_at # was.updated_at

\* C10: no stored title is empty or all white space.
C10_TitleNeverBlank ==
    \A i \in Ids(tasks) :
        /\ tasks[i].title.k = "string"
        /\ \E j \in 1..Len(tasks[i].title.v) : ~IsWhite(tasks[i].title.v[j])

C10_Witness ==
    /\ Answered("update", 200)
    /\ req.body.title = PaddedA
    /\ \E i \in Ids(tasks) : tasks[i].title = Str(<<"a">>)
    /\ \E i \in Ids(tasks) : tasks[i].id > NumSamples

\* a title that is no string, or a string of nothing but white space
Blank(x) == x.k # "string" \/ \A j \in 1..Len(x.v) : IsWhite(x.v[j])

\* C11: a create whose title is missing, no string, empty or blank answers
\* 400 'Task title is required'; no row is added or changed and no id is
\* used up.
C11_CreateRejectsBlank ==
    [][Step("create") /\ Blank(req.body.title) =>
        /\ res' = Error(400, "Task title is required")
        /\ tasks' = tasks
        /\ seq' = seq]_vars

C11_Witness ==
    /\ Answered("create", 400)
    /\ req.body.title = Blank1
    /\ Ids(tasks) # Ids(SeededTasks)
    /\ seq = NumSamples

\* t is s without its leading and trailing white space
Trimmed(t, s) ==
    /\ t = <<>> \/ (~IsWhite(t[1]) /\ ~IsWhite(t[Len(t)]))
    /\ \E a \in 0..Len(s) :
        /\ a + Len(t) <= Len(s)
        /\ SubSeq(s, a + 1, a + Len(t)) = t
        /\ \A k \in 1..Len(s) : (k <= a \/ k > a + Len(t)) => IsWhite(s[k])

\* C12: a successful create adds one row under a new id and returns it: the
\* title trimmed, description '' when none is supplied, due_date null when
\* none is supplied, completed 0 when none is supplied, and what is supplied
\* for description and due_date as supplied.
C12_CreateDefaults ==
    [][Step("create") /\ res'.status = 201 =>
        LET b == req.body
            new == res'.body
        IN /\ new.id \notin Ids(tasks)
           /\ Ids(tasks') = Ids(tasks) \cup {new.id}
           /\ tasks'[new.id] = new
           /\ new.title.k = "string" /\ Trimmed(new.title.v, b.title.v)
           /\ new.description = (IF b.description = Undefined THEN Str(<<>>) ELSE b.description)
           /\ new.due_date = (IF b.due_date = Undefined THEN Null ELSE b.due_date)
           /\ b.completed = Undefined => new.completed = Num(0)]_vars

C12_Witness ==
    /\ Answered("create", 201)
    /\ req.body = Body(PaddedA, Undefined, Undefined, Undefined)
    /\ res.body.id = NumSamples + 1
    /\ res.body.title = Str(<<"a">>)
    /\ res.body.description = Str(<<>>)
    /\ res.body.due_date = Null
    /\ res.body.completed = Num(0)
    /\ tasks[NumSamples + 1] = res.body

\* the stored id that the path parameter of the request names
Target == ParseInt(req.id).v

\* C13: a successful update replaces, among title, description, due_date
\* and completed, the fields its body supplies (the title trimmed, completed
\* as 0 or 1) and keeps the others; no update changes the task's id,
\* sort_order or created_at, any other task, or the set of tasks.
C13_UpdateIsPatch ==
    [][Step("update") =>
        /\ Ids(tasks') = Ids(tasks)
        /\ \A j \in Ids(tasks) : j # Target => tasks'[j] = tasks[j]
        /\ res'.status = 200 =>
            LET b == req.body
                old == tasks[Target]
                new == tasks'[Target]
            IN /\ new.id = old.id
               /\ new.sort_order = old.sort_order
               /\ new.created_at = old.created_at
               /\ IF b.title = Undefined THEN new.title = old.title
                  ELSE Trimmed(new.title.v, b.title.v)
               /\ new.description = (IF b.description = Undefined THEN old.description
                                     ELSE b.description)
               /\ new.due_date = (IF b.due_date = Undefined THEN old.due_date
                                  ELSE b.due_date)
               /\ new.completed = (IF b.completed = Undefined THEN old.completed
                                   ELSE IF b.completed = Bool(TRUE) THEN Num(1) ELSE Num(0))
               /\ res'.body = new]_vars

C13_Witness ==
    /\ Answered("update", 200)
    /\ req.body = Body(Undefined, Str(<<"x">>), Undefined, Undefined)
    /\ tasks[1].description = Str(<<"x">>)
    /\ tasks[1].title = Str(<<"a">>)
    /\ tasks[1].due_date = Null
    /\ tasks[1].completed = Num(1)
    /\ tasks[1].sort_order = Num(0)
    /\ tasks[2].sort_order = Num(0)
    /\ tasks[1].updated_at # tasks[1].created_at

\* C14: an update of a stored task whose body supplies an empty or blank
\* title answers 400 'Task title cannot be empty' and changes no row,
\* whatever else the body supplies; an update that omits the title is never
\* answered that way.
C14_UpdateRejectsBlank ==
    [][Step("update") =>
        /\ (Target \in Ids(tasks) /\ req.body.title # Undefined /\ Blank(req.body.title)) =>
                /\ res' = Error(400, "Task title cannot be empty")
                /\ tasks' = tasks
        /\ req.body.title = Undefined =>
                res' # Error(400, "Task title cannot be empty")]_vars

C14_Witness ==
    /\ Answered("update", 400)
    /\ req.body = Body(Blank1, Str(<<"x">>), Null, Bool(TRUE))
    /\ now > 0
    /\ tasks[1] = SeededTasks[1]

\* the request at hand goes to one of the four :id routes
OnIdRoute == req.op \in {"get", "update", "toggle", "delete"}
StepOnId == pc = "sent" /\ OnIdRoute /\ pc' = "replied"

\* s is the decimal text of an integer
IsInteger(s) ==
    \/ AllDigits(s)
    \/ s # <<>> /\ Head(s) = "-" /\ AllDigits(Tail(s))

\* C15: get, update, toggle and delete of an integer id that no stored task
\* has answer 404 'Task not found' and leave the store as it was.
C15_UnknownIdNotFound ==
    [][StepOnId /\ AllDigits(req.id) /\ DigitsValue(req.id) \notin Ids(tasks) =>
        /\ res' = Error(404, "Task not found")
        /\ tasks' = tasks
        /\ seq' = seq]_vars

C15_Witness ==
    /\ Answered("delete", 404)
    /\ req.id = IdParam(1)
    /\ 1 \notin Ids(tasks)
    /\ now > 0
    /\ tasks[2] = SeededTasks[2]

\* C16: get, update, toggle and delete of an id that is no integer answer
\* 400 'Valid task ID is required' and leave the store as it was.
C16_MalformedIdBadRequest ==
    [][StepOnId /\ ~IsInteger(req.id) =>
        /\ res' = Error(400, "Valid task ID is required")
        /\ tasks' = tasks]_vars

\* C17: every row is stored under its own id, no id exceeds the largest one
\* assigned so far, that mark never goes down, and a successful create
\* takes an id above it: above every id assigned before, deleted or not.
C17_IdsNeverReused ==
    [][/\ seq' >= seq
       /\ \A i \in Ids(tasks') : tasks'[i].id = i /\ i <= seq'
       /\ Step("create") /\ res'.status = 201 =>
            /\ res'.body.id > seq
            /\ res'.body.id \notin Ids(tasks)
            /\ seq' = res'.body.id]_vars

C17_Witness ==
    /\ Answered("create", 201)
    /\ res.body.id = NumSamples + 1
    /\ NumSamples \notin Ids(tasks)
    /\ Ids(tasks) = {1, NumSamples + 1}

\* entry e of the record is an acknowledged delete
Deleted(e) == e.req.op = "delete" /\ e.status = 200

\* C18: a successful delete removes the row of its id and no other, and
\* leaves every other row as it was, sort_order included; the get of that
\* id that follows answers 404, and the listing that follows holds exactly
\* the other rows, unchanged.
C18_DeleteExactlyOne ==
    [][/\ Step("delete") /\ res'.status = 200 =>
            /\ Target \in Ids(tasks)
            /\ Ids(tasks') = Ids(tasks) \ {Target}
            /\ \A j \in Ids(tasks') : tasks'[j] = tasks[j]
       /\ Step("get") /\ Deleted(hist.last) /\ hist.last.req.id = req.id =>
            res' = Error(404, "Task not found")
       /\ Step("list") /\ Deleted(hist.last) =>
            LET before == hist.last.before
                gone == ParseInt(hist.last.req.id).v
                rows == res'.body
            IN /\ res'.status = 200
               /\ Len(rows) = Cardinality(Ids(before)) - 1
               /\ \A k \in 1..Len(rows) : rows[k].id # gone
               /\ \A j \in Ids(before) \ {gone} :
                    \E k \in 1..Len(rows) : rows[k] = before[j]]_vars

C18_Witness ==
    /\ Answered("list", 200)
    /\ Deleted(hist.prev)
    /\ hist.prev.req.id = IdParam(2)
    /\ Len(res.body) = 2
    /\ res.body[1] = SeededTasks[1]
    /\ res.body[2] = SeededTasks[3]
    /\ res.body[2].sort_order = Num(2)

\* C19: a successful update (whatever its body supplies) and a successful
\* toggle set their task's updated_at to the time of the call, an
\* acknowledged reorder does so for every stored task an assignment with
\* both fields names, and no step changes the created_at of a stored task.
C19_UpdatedAtRefreshed ==
    [][/\ (Step("update") \/ Step("toggle")) /\ res'.status = 200 =>
            /\ tasks'[Target].updated_at = Num(now)
            /\ res'.body.updated_at = Num(now)
       /\ Step("reorder") /\ res'.status = 200 =>
            \A i \in Ids(tasks) : Naming(Batch, i) # {} => tasks'[i].updated_at = Num(now)
       /\ \A i \in Ids(tasks) \cap Ids(tasks') :
            tasks'[i].created_at = tasks[i].created_at]_vars

C19_Witness ==
    /\ Answered("update", 200)
    /\ req.id = IdParam(NumSamples + 1)
    /\ req.body = Body(Undefined, Undefined, Undefined, Undefined)
    /\ {1, NumSamples + 1} \subseteq Ids(tasks)
    /\ now = MaxClock
    /\ tasks[NumSamples + 1].created_at = Num(0)
    /\ tasks[NumSamples + 1].updated_at = Num(now)
    /\ tasks[1].updated_at = Num(now)
    /\ tasks[1].created_at = Num(0)
    /\ tasks[1].sort_order = Num(0)
    /\ tasks[1].completed = Num(1)

\* the sort key of the request is none of the five the route knows
NoKnownKey == req.sortBy.k # "string" \/ req.sortBy.v \notin validSortFields

\* C20: a listing whose sort key is absent or not one of the five, and the
\* listing by created_at in the same direction (descending when none is
\* asked), are one and the same sequence: the stored rows in created_at
\* order, rows created in the same second in ascending id order.
C20_UnknownKeyFallsBack ==
    Answered("list", 200) /\ (NoKnownKey \/ req.sortBy = Str(created_at)) =>
        LET rows == res.body
        IN /\ Len(rows) = Cardinality(Ids(tasks))
           /\ \A i \in Ids(tasks) : \E j \in 1..Len(rows) : rows[j] = tasks[i]
           /\ \A j, k \in 1..Len(rows) :
                j < k =>
                    IF rows[j].created_at = rows[k].created_at THEN rows[j].id < rows[k].id
                    ELSE IF req.order = Str(ASC)
                    THEN rows[j].created_at.v < rows[k].created_at.v
                    ELSE rows[j].created_at.v > rows[k].created_at.v

C20_Witness ==
    /\ Answered("list", 200)
    /\ req.sortBy = Str(Junk)
    /\ req.order = Str(DESC)
    /\ Len(res.body) = NumSamples + 1
    /\ res.body[1].id = NumSamples + 1
    /\ res.body[1].created_at = Num(1)
    /\ res.body[2] = SeededTasks[1]
    /\ res.body[3] = SeededTasks[2]

\* the direction of the request names neither direction in any case of its
\* letters: there is none, it is no string, or it is another string
NoKnownDirection ==
    req.order.k # "string" \/ ToUpperCase(req.order.v) \notin validOrders

\* what the listing on the request's sort key, descending, returns
ListedDescending == OrderBy(tasks, SortField(Default(req.sortBy, Str(created_at))), DESC)

\* C21: a listing whose direction is neither ascending nor descending in any
\* case of its letters, or absent, returns the sequence that the listing on
\* the same sort key returns for descending.
C21_UnknownDirectionDescends ==
    pc = "replied" /\ req.op = "list" /\ NoKnownDirection =>
        res = Ok(200, ListedDescending)

\* C22: a listing never fails: whatever sort key and direction the query
\* carries, the answer is 200 with all the stored tasks.
C22_ListNeverFails ==
    pc = "replied" /\ req.op = "list" =>
        /\ res.status = 200
        /\ Len(res.body) = Cardinality(Ids(tasks))

\* C23: a listing and a get change no row and use up no id; the sequence a
\* listing returns holds every stored row once and nothing else, and the
\* row a get returns is the stored one.
C23_ReadsChangeNothing ==
    [][(Step("list") \/ Step("get")) =>
        /\ tasks' = tasks
        /\ seq' = seq
        /\ Step("list") /\ res'.status = 200 =>
            LET rows == res'.body
            IN /\ Len(rows) = Cardinality(Ids(tasks))
               /\ \A j \in 1..Len(rows) : rows[j].id \in Ids(tasks) /\ rows[j] = tasks[rows[j].id]
               /\ \A i \in Ids(tasks) : \E j \in 1..Len(rows) : rows[j].id = i
        /\ Step("get") /\ res'.status = 200 =>
            res'.body = tasks[Target]]_vars

C23_Witness ==
    /\ Answered("list", 200)
    /\ req.sortBy = Str(sort_order)
    /\ req.order = Str(<<"x">>)
    /\ Ids(tasks) = {1, 3, NumSamples + 1}
    /\ now > 0
    /\ [j \in 1..Len(res.body) |-> res.body[j].id] = <<NumSamples + 1, 3, 1>>
    /\ seq = NumSamples + 1

\* C25: every stored sort_order is an integer, whatever create, delete and
\* reorder calls came before and whatever values their assignments carried.
C25_SortOrderInteger ==
    \A i \in Ids(tasks) : tasks[i].sort_order.k = "number"

\* assignment a names a task of table t
Names(a, t) == RowsWithId(t, a.id) # {}

\* C28: a reorder keeps the set of stored ids; a batch none of whose
\* assignments names a stored task writes nothing, and a non-empty batch
\* of integer values is acknowledged whether its ids are stored or not.
C28_ReorderKeepsIds ==
    [][Step("reorder") =>
        /\ Ids(tasks') = Ids(tasks)
        /\ (\A k \in 1..Len(Batch) : ~Names(Batch[k], tasks)) => tasks' = tasks
        /\ Batch # <<>> => res'.status = 200]_vars

\* table t with the row that response r carries in place of the old one
With(t, r) == [t EXCEPT ![r.body.id] = r.body]

\* slots i and j hold acknowledged toggles of one task that were sent on
\* the same table; the one in slot i was served on that table and the one
\* in slot j on what it left: both were under way before either was
\* served, and nothing was served between them
ToggledAtOnce(i, j) ==
    /\ i # j
    /\ calls[i].state = "answered" /\ calls[j].state = "answered"
    /\ calls[i].req.op = "toggle" /\ calls[j].req = calls[i].req
    /\ calls[i].res.status = 200 /\ calls[j].res.status = 200
    /\ calls[i].before = calls[j].before
    /\ calls[i].on = calls[i].before
    /\ calls[j].on = With(calls[i].on, calls[i].res)

\* C26: two toggles of one task that are under way at once lose no update:
\* the first served answers with the task flipped, the second with it
\* flipped back, so that when both are answered completed is what it was
\* before the two.
C26_TogglesAtOnce ==
    \A i, j \in Slots :
        ToggledAtOnce(i, j) =>
            LET id == ParseInt(calls[i].req.id).v
                was == calls[i].before[id].completed
            IN /\ calls[i].res.body.completed = Num(1 - was.v)
               /\ calls[j].res.body.completed = was
               /\ tasks = With(calls[j].on, calls[j].res) => tasks[id].completed = was

C26_Witness ==
    /\ ToggledAtOnce(2, 1)
    /\ calls[1].req.id = IdParam(1)
    /\ calls[1].before = SeededTasks
    /\ calls[2].res.body.completed = Num(1)
    /\ calls[1].res.body.completed = Num(0)
    /\ tasks = With(calls[1].on, calls[1].res)
    /\ tasks[1].completed = Num(0)
    /\ tasks[1].updated_at = Num(MaxClock)

\* the sort_order that batch b gives task i last
LastValue(b, i) ==
    LET ks == Naming(b, i)
    IN b[CHOOSE k \in ks : \A j \in ks : j <= k].sort_order

\* C24: whatever requests are under way at once, a successful update writes
\* its title and its updated_at in one step, and the listing or get that is
\* served next after a reorder finds either none or all of the batch's
\* assignments in the table.
C24_RequestsAtomic ==
    [][/\ Step("update") /\ res'.status = 200 =>
            /\ tasks'[Target].updated_at = Num(now)
            /\ req.body.title # Undefined => tasks'[Target].title = Str(Trim(req.body.title.v))
       /\ (Step("list") \/ Step("get")) /\ hist.last.req.op = "reorder"
               /\ IsArray(hist.last.req.tasks) =>
            LET b == hist.last.req.tasks.v
                was == hist.last.before
            IN \/ \A i \in Ids(tasks) : tasks[i].sort_order = was[i].sort_order
               \/ \A i \in Ids(tasks) :
                    Naming(b, i) # {} =>
                        tasks[i].sort_order = IntegerAffinity(LastValue(b, i))]_vars

\* creates i and j were sent on the same table: both were under way before
\* either was served
CreatedAtOnce(i, j) ==
    /\ i # j
    /\ calls[i].state = "answered" /\ calls[j].state = "answered"
    /\ calls[i].req.op = "create" /\ calls[j].req.op = "create"
    /\ calls[i].res.status = 201 /\ calls[j].res.status = 201
    /\ calls[i].before = calls[j].before

\* C27: two creates under way at once are given different sort_orders, and
\* the sort_order of a new task is greater than that of every task present
\* when it is inserted.
C27_CreatesAtOnce ==
    [][/\ \A i, j \in Slots :
            CreatedAtOnce(i, j) =>
                calls[i].res.body.sort_order # calls[j].res.body.sort_order
       /\ Step("create") /\ res'.status = 201 =>
            \A i \in Ids(tasks) : SqlLess(tasks[i].sort_order, res'.body.sort_order)]_vars

\* no request is under way
Quiet == \A i \in Slots : calls[i] = NoCall

\* the list on display holds every stored task once, as it is stored
Reflects(list) ==
    /\ Len(list) = Cardinality(Ids(tasks))
    /\ \A j \in 1..Len(list) : list[j].id \in Ids(tasks) /\ list[j] = tasks[list[j].id]
    /\ \A i \in Ids(tasks) : \E j \in 1..Len(list) : list[j].id = i

\* C29: once the responses of the TaskList's requests have all been
\* handled, requests that were under way at once included, the list on
\* display holds what every one of them did: each stored task as stored.
C29_ListReflectsAll ==
    Quiet => Reflects(view.tasks)

\* the handler of the call in slot i resumes with a successful response to
\* an add, an update or a toggle
Resumes(i) ==
    /\ calls[i].state = "answered"
    /\ calls[i].by = "TaskList"
    /\ calls[i].req.op \in {"create", "update", "toggle"}
    /\ IsOk(calls[i].res)
    /\ calls'[i] = NoCall

\* C30: after a successful add, update or toggle the list on display is
\* what the server's listing on the sort key and direction selected
\* returns.
C30_ListStaysSorted ==
    [][\A i \in Slots :
        Resumes(i) =>
            view'.tasks = OrderBy(tasks, SortField(Str(view.sortBy)), view.sortOrder)]_vars

=============================================================================
